---- MODULE Spec2Model ----
(***************************************************************************)
(* Model of FactorVAE/nar_data.py: the problem loader                      *)
(* (AnalogicalReasoningDataset) and the flattened task dataset             *)
(* (nar_Custom_Dataset) built on it.                                       *)
(*                                                                         *)
(* The JSON manifest is a Python list of problems; the image directory is  *)
(* a map from file names to file contents.  Python lists are modelled as   *)
(* TLA+ sequences: the Python index i is the TLA+ index i + 1.  An         *)
(* operation that raises is modelled by the record [ok |-> FALSE, err |->  *)
(* <exception name>], one that returns by [ok |-> TRUE, val |-> <value>].  *)
(***************************************************************************)
EXTENDS Integers, Sequences, FiniteSets, TLC

VARIABLES manifest, files, loader, flat, built, result

vars == <<manifest, files, loader, flat, built, result>>

(***************************************************************************)
(* Bounds of the model.                                                    *)
(***************************************************************************)
\* the longest manifest (number of problems in the JSON file)
MaxProblems == 2
\* the number of image files that may be deleted or overwritten in a run
MaxFsOps == 1

Min(a, b) == IF a < b THEN a ELSE b
Max(a, b) == IF a > b THEN a ELSE b

Ok(v) == [ok |-> TRUE, val |-> v]
Err(e) == [ok |-> FALSE, err |-> e]

(***************************************************************************)
(* Python's list semantics.                                                *)
(***************************************************************************)
\* s[a:b]: negative bounds count from the end, bounds are clamped to the list
PySliceBound(i, n) == IF i < 0 THEN Max(n + i, 0) ELSE Min(i, n)

PySlice(s, a, b) ==
    LET lo == PySliceBound(a, Len(s))
        hi == PySliceBound(b, Len(s))
    IN  IF lo >= hi THEN <<>> ELSE SubSeq(s, lo + 1, hi)

\* s[i] is defined for -len(s) <= i < len(s); a negative i counts from the end
PyInRange(n, i) == -n <= i /\ i < n

PyPos(n, i) == IF i < 0 THEN n + i + 1 ELSE i + 1

(***************************************************************************)
(* The inputs: the manifest and the image directory.                       *)
(***************************************************************************)
\* The symbolic description of one image of the manifest: which problem of
\* the manifest it belongs to, which part of it, and where in that part.
Sym(p, part, e, o) == [problem |-> p, part |-> part, example |-> e, option |-> o]

ExShape(n, s) == [nopts |-> n, solution |-> s]

\* The shapes a problem of the manifest is drawn from: the option count and
\* the solution index of each example, the number of query options and the
\* solution index of the problem.
BaseShape ==
    [examples |-> <<ExShape(2, 0), ExShape(2, 1)>>, nq |-> 2, solution |-> 1]
FewerExamplesShape ==
    [examples |-> <<ExShape(1, 0)>>, nq |-> 1, solution |-> 0]
FewerOptionsShape ==
    [examples |-> <<ExShape(2, 1), ExShape(1, 0)>>, nq |-> 2, solution |-> 0]
MoreShape ==
    [examples |-> <<ExShape(2, 1), ExShape(3, 2), ExShape(2, 0)>>, nq |-> 3,
     solution |-> 2]
SolutionAtLenShape ==
    [examples |-> <<ExShape(2, 2), ExShape(2, 0)>>, nq |-> 2, solution |-> 2]

Shapes ==
    {BaseShape, FewerExamplesShape, FewerOptionsShape, MoreShape,
     SolutionAtLenShape}

\* One entry of the JSON list: [examples, query, query_options, solution,
\* program], each example being [input, options, solution].
ManifestProblem(p, shape) ==
    [examples |->
        [e \in 1..Len(shape.examples) |->
            [input |-> Sym(p, "input", e - 1, 0),
             options |-> [o \in 1..shape.examples[e].nopts |->
                             Sym(p, "option", e - 1, o - 1)],
             solution |-> shape.examples[e].solution]],
     query |-> Sym(p, "query", 0, 0),
     query_options |-> [o \in 1..shape.nq |-> Sym(p, "query_option", 0, o - 1)],
     solution |-> shape.solution,
     program |-> <<"program", p>>]

Manifests ==
    UNION {{[i \in 1..n |-> ManifestProblem(i - 1, sh[i])] :
                sh \in [1..n -> Shapes]} : n \in 1..MaxProblems}

\* The file naming convention of the image directory.
InputName(idx, eidx) == ToString(idx) \o "_" \o ToString(eidx) \o "_input.png"
OptionName(idx, eidx, oidx) ==
    ToString(idx) \o "_" \o ToString(eidx) \o "_" \o ToString(oidx) \o "_option.png"
QueryName(idx) == ToString(idx) \o "_query.png"
QueryOptionName(idx, oidx) ==
    ToString(idx) \o "_" \o ToString(oidx) \o "_query_option.png"

\* The name of the file that holds the picture of a symbolic description.
NameOf(s) ==
    CASE s.part = "input" -> InputName(s.problem, s.example)
      [] s.part = "option" -> OptionName(s.problem, s.example, s.option)
      [] s.part = "query" -> QueryName(s.problem)
      [] s.part = "query_option" -> QueryOptionName(s.problem, s.option)

SymsOfProblem(pr) ==
    {pr.query}
    \cup {pr.query_options[o] : o \in DOMAIN pr.query_options}
    \cup {pr.examples[e].input : e \in DOMAIN pr.examples}
    \cup UNION {{pr.examples[e].options[o] : o \in DOMAIN pr.examples[e].options} :
                    e \in DOMAIN pr.examples}

SymsOf(m) == UNION {SymsOfProblem(m[i]) : i \in DOMAIN m}

\* The image directory that belongs to a manifest: for every image of every
\* problem one file, named after the problem's position in the manifest,
\* holding the picture of that image (ver counts the times it was written).
ImageDir(m) ==
    LET syms == SymsOf(m)
        names == {NameOf(s) : s \in syms}
    IN  [n \in names |->
            [exists |-> TRUE,
             renders |-> CHOOSE s \in syms : NameOf(s) = n,
             ver |-> 1]]

(***************************************************************************)
(* read_image and the grayscale transform.                                 *)
(***************************************************************************)
\* (variant: a missing file yields a blank placeholder image)
read_image_Placeholder(fs, path) ==
    IF path \in DOMAIN fs /\ fs[path].exists
    THEN Ok([channels |-> 3,
             pixels |-> [renders |-> fs[path].renders, ver |-> fs[path].ver]])
    ELSE Ok([channels |-> 3,
             pixels |-> [renders |-> Sym(0, "blank", 0, 0), ver |-> 0]])

\* read_image(path): Image.open fails when there is no such file; ToTensor
\* decodes the picture into a channel-first tensor of 3 colour channels.
read_image(fs, path) ==
    IF path \in DOMAIN fs /\ fs[path].exists
    THEN Ok([channels |-> 3,
             pixels |-> [renders |-> fs[path].renders, ver |-> fs[path].ver]])
    ELSE Err("FileNotFoundError")

\* transforms.Grayscale(num_output_channels=1)
transform(img) == [channels |-> 1, pixels |-> img.pixels]

(***************************************************************************)
(* AnalogicalReasoningDataset (the problem loader).                        *)
(***************************************************************************)
AnalogicalReasoningDataset_init(json, size1, size2) ==
    [size |-> size2 - size1, problems |-> PySlice(json, size1, size2)]

\* (variant: __len__ returns the stored size)
AnalogicalReasoningDataset_len_StoredSize(self) == self.size

AnalogicalReasoningDataset_len(self) == Len(self.problems)

\* The files __getitem__(idx) reads for the problem it found at idx.
FilesRead(idx, problem) ==
    {InputName(idx, e - 1) : e \in DOMAIN problem.examples}
    \cup UNION {{OptionName(idx, e - 1, o - 1) :
                    o \in DOMAIN problem.examples[e].options} :
                        e \in DOMAIN problem.examples}
    \cup {QueryName(idx)}
    \cup {QueryOptionName(idx, o - 1) : o \in DOMAIN problem.query_options}

\* The first tuple __getitem__ returns: the JSON entry as Problem / Example.
SymbolicForm(problem) ==
    [examples |-> [e \in DOMAIN problem.examples |->
                      [input |-> problem.examples[e].input,
                       options |-> problem.examples[e].options,
                       solution |-> problem.examples[e].solution]],
     query |-> problem.query,
     query_options |-> problem.query_options,
     solution |-> problem.solution,
     program |-> problem.program]

\* (variant: the option loop stops one short, range(len(options) - 1))
HydratedForm_ShortOptions(fs, idx, problem) ==
    [examples |-> [e \in DOMAIN problem.examples |->
                      [input |-> read_image(fs, InputName(idx, e - 1)).val,
                       options |-> [o \in 1..(Len(problem.examples[e].options) - 1) |->
                                       read_image(fs, OptionName(idx, e - 1, o - 1)).val],
                       solution |-> problem.examples[e].solution]],
     query |-> read_image(fs, QueryName(idx)).val,
     query_options |-> [o \in DOMAIN problem.query_options |->
                           read_image(fs, QueryOptionName(idx, o - 1)).val],
     solution |-> problem.solution,
     program |-> problem.program]

\* The second tuple: every image read from the file named after idx.
HydratedForm(fs, idx, problem) ==
    [examples |-> [e \in DOMAIN problem.examples |->
                      [input |-> read_image(fs, InputName(idx, e - 1)).val,
                       options |-> [o \in DOMAIN problem.examples[e].options |->
                                       read_image(fs, OptionName(idx, e - 1, o - 1)).val],
                       solution |-> problem.examples[e].solution]],
     query |-> read_image(fs, QueryName(idx)).val,
     query_options |-> [o \in DOMAIN problem.query_options |->
                           read_image(fs, QueryOptionName(idx, o - 1)).val],
     solution |-> problem.solution,
     program |-> problem.program]

AnalogicalReasoningDataset_getitem(self, fs, idx) ==
    IF ~PyInRange(Len(self.problems), idx)
    THEN Err("IndexError")
    ELSE LET problem == self.problems[PyPos(Len(self.problems), idx)]
         IN  IF \E f \in FilesRead(idx, problem) : ~read_image(fs, f).ok
             THEN Err("FileNotFoundError")
             ELSE Ok([symbolic |-> SymbolicForm(problem),
                      hydrated |-> HydratedForm(fs, idx, problem)])

(***************************************************************************)
(* nar_Custom_Dataset (the flattened task dataset).                        *)
(***************************************************************************)
\* A list comprehension whose elements may raise: the first exception in
\* iteration order ends it, otherwise it yields the list of the values.
Collect(outs) ==
    IF \E k \in DOMAIN outs : ~outs[k].ok
    THEN outs[CHOOSE k \in DOMAIN outs :
                 ~outs[k].ok /\ \A j \in DOMAIN outs : j < k => outs[j].ok]
    ELSE Ok([k \in DOMAIN outs |-> outs[k].val])

\* torch.stack raises on an empty list (every image of the model has the
\* same height and width, so the tensors of a non-empty list always stack).
torch_stack(outs) ==
    LET list == Collect(outs)
    IN  IF ~list.ok THEN list
        ELSE IF Len(list.val) = 0 THEN Err("RuntimeError")
        ELSE list

\* "for task in range(num_task) for i in range(num_examples)": the pair the
\* comprehension visits at position r (counted from 0).
RowTask(r, num_examples) == r \div num_examples
RowExample(r, num_examples) == r % num_examples

RowCount(num_task, num_examples) == Max(num_task, 0) * num_examples

\* (variant: an example index past the end yields the last example)
HydratedExample_Clamped(data, fs, task, i) ==
    LET g == AnalogicalReasoningDataset_getitem(data, fs, task)
    IN  IF ~g.ok THEN g
        ELSE IF Len(g.val.hydrated.examples) = 0 THEN Err("IndexError")
        ELSE Ok(g.val.hydrated.examples[Min(i + 1, Len(g.val.hydrated.examples))])

\* self.data.__getitem__(task)[1].examples[i]
HydratedExample(data, fs, task, i) ==
    LET g == AnalogicalReasoningDataset_getitem(data, fs, task)
    IN  IF ~g.ok THEN g
        ELSE IF ~PyInRange(Len(g.val.hydrated.examples), i) THEN Err("IndexError")
        ELSE Ok(g.val.hydrated.examples[i + 1])

\* self.data.__getitem__(task)[1]
HydratedProblem(data, fs, task) ==
    LET g == AnalogicalReasoningDataset_getitem(data, fs, task)
    IN  IF ~g.ok THEN g ELSE Ok(g.val.hydrated)

\* torch.stack([transform(options[j]) for j in range(num_options)])
StackOptions(options, num_options) ==
    torch_stack([k \in 1..num_options |->
                    IF PyInRange(Len(options), k - 1)
                    THEN Ok(transform(options[k]))
                    ELSE Err("IndexError")])

\* (variant: the first option is taken, whatever the solution index)
SolutionImage_First(options, solution) ==
    IF PyInRange(Len(options), solution)
    THEN Ok(transform(options[1]))
    ELSE Err("IndexError")

\* transform(options[solution])
SolutionImage(options, solution) ==
    IF PyInRange(Len(options), solution)
    THEN Ok(transform(options[PyPos(Len(options), solution)]))
    ELSE Err("IndexError")

\* The three tensors, built one after the other: the first that raises ends
\* the construction.
Tensors(num_task, train, images, options, solution) ==
    IF ~images.ok THEN images
    ELSE IF ~options.ok THEN options
    ELSE IF ~solution.ok THEN solution
    ELSE Ok([num_task |-> num_task, train |-> train, images |-> images.val,
             options |-> options.val, solution |-> solution.val])

TrainTensors(data, fs, num_task) ==
    LET first == AnalogicalReasoningDataset_getitem(data, fs, 0)
    IN  IF ~first.ok THEN first
        ELSE IF Len(first.val.hydrated.examples) = 0 THEN Err("IndexError")
        ELSE
        LET num_examples == Len(first.val.hydrated.examples)
            num_options == Len(first.val.hydrated.examples[1].options)
            rows == 1..RowCount(num_task, num_examples)
            ex(r) == HydratedExample(data, fs, RowTask(r - 1, num_examples),
                                     RowExample(r - 1, num_examples))
            images == torch_stack([r \in rows |->
                          IF ex(r).ok THEN Ok(transform(ex(r).val.input)) ELSE ex(r)])
            options == torch_stack([r \in rows |->
                          IF ex(r).ok THEN StackOptions(ex(r).val.options, num_options)
                          ELSE ex(r)])
            solution == torch_stack([r \in rows |->
                          IF ex(r).ok
                          THEN SolutionImage(ex(r).val.options, ex(r).val.solution)
                          ELSE ex(r)])
        IN  Tensors(num_task, TRUE, images, options, solution)

EvalTensors(data, fs, num_task) ==
    LET first == AnalogicalReasoningDataset_getitem(data, fs, 0)
    IN  IF ~first.ok THEN first
        ELSE
        LET num_options == Len(first.val.hydrated.query_options)
            tasks == 1..Max(num_task, 0)
            pr(t) == HydratedProblem(data, fs, t - 1)
            images == torch_stack([t \in tasks |->
                          IF pr(t).ok THEN Ok(transform(pr(t).val.query)) ELSE pr(t)])
            options == torch_stack([t \in tasks |->
                          IF pr(t).ok
                          THEN StackOptions(pr(t).val.query_options, num_options)
                          ELSE pr(t)])
            solution == torch_stack([t \in tasks |->
                          IF pr(t).ok
                          THEN SolutionImage(pr(t).val.query_options, pr(t).val.solution)
                          ELSE pr(t)])
        IN  Tensors(num_task, FALSE, images, options, solution)

nar_Custom_Dataset_init(json, fs, num_task, train) ==
    LET data == AnalogicalReasoningDataset_init(json, 0, num_task)
    IN  IF train THEN TrainTensors(data, fs, num_task)
        ELSE EvalTensors(data, fs, num_task)

\* (variant: negative indexes are rejected)
nar_Custom_Dataset_getitem_NoNegative(self, idx) ==
    IF idx < 0 \/ idx >= Len(self.images) THEN Err("IndexError")
    ELSE Ok([images |-> self.images[idx + 1],
             options |-> self.options[idx + 1],
             solution |-> self.solution[idx + 1]])

\* (variant: a lazy accessor, the tensors are built again on every Get)
nar_Custom_Dataset_getitem_Lazy(self, idx) ==
    LET again == nar_Custom_Dataset_init(manifest, files, self.num_task, self.train)
    IN  IF ~again.ok THEN again
        ELSE IF ~PyInRange(Len(again.val.images), idx) THEN Err("IndexError")
        ELSE Ok([images |-> again.val.images[PyPos(Len(again.val.images), idx)],
                 options |-> again.val.options[PyPos(Len(again.val.options), idx)],
                 solution |-> again.val.solution[PyPos(Len(again.val.solution), idx)]])

\* (self.images[idx], self.options[idx], self.solution[idx]): indexing a
\* tensor along its first dimension follows Python's index rule.
nar_Custom_Dataset_getitem(self, idx) ==
    IF ~PyInRange(Len(self.images), idx) THEN Err("IndexError")
    ELSE Ok([images |-> self.images[PyPos(Len(self.images), idx)],
             options |-> self.options[PyPos(Len(self.options), idx)],
             solution |-> self.solution[PyPos(Len(self.solution), idx)]])

\* (variant: __len__ returns the task count)
nar_Custom_Dataset_len_TaskCount(self) == self.num_task

nar_Custom_Dataset_len(self) == Len(self.images)

(***************************************************************************)
(* The state machine.  A run takes a manifest with its image directory,    *)
(* constructs one of the two datasets and then calls its accessors, while  *)
(* image files are deleted or overwritten in between.  The two classes     *)
(* share no state, so a run exercises one of them.                         *)
(***************************************************************************)
NoObject == [state |-> "none"]
\* No call has returned since the image directory last changed; okBefore
\* holds the index of a Get of the problem loader that had succeeded just
\* before the change.
NoResult == [op |-> "none", okBefore |-> {}]

Init ==
    /\ manifest \in Manifests
    /\ files = ImageDir(manifest)
    /\ loader = NoObject
    /\ flat = NoObject
    /\ built = NoObject
    /\ result = NoResult

Fresh == loader.state = "none" /\ flat.state = "none"

\* the constructor arguments and indexes a run draws from
SliceStarts == 0..(MaxProblems - 1)
SliceEnds == 0..(MaxProblems + 1)
TaskCounts == (-1)..(MaxProblems + 1)
LoaderIndexes(self) == (-(Len(self.problems) + 1))..Len(self.problems)
FlatIndexes(self) == (-(Len(self.images) + 1))..Len(self.images)

OkBefore(r) ==
    CASE r.op = "none" -> r.okBefore
      [] r.op = "LoaderGet" -> IF r.out.ok THEN {r.idx} ELSE {}
      [] OTHER -> {}

ConstructLoader(size1, size2) ==
    /\ Fresh
    /\ loader' = [state |-> "ok",
                  self |-> AnalogicalReasoningDataset_init(manifest, size1, size2),
                  size1 |-> size1, size2 |-> size2]
    /\ UNCHANGED <<manifest, files, flat, built, result>>

LoaderLen ==
    /\ loader.state = "ok"
    /\ result' = [op |-> "LoaderLen", out |-> AnalogicalReasoningDataset_len(loader.self)]
    /\ UNCHANGED <<manifest, files, loader, flat, built>>

\* again: the call before this one (changes of the image directory aside)
\* was a successful Get of the same index
LoaderGet(idx) ==
    /\ loader.state = "ok"
    /\ result' = [op |-> "LoaderGet", idx |-> idx,
                  out |-> AnalogicalReasoningDataset_getitem(loader.self, files, idx),
                  again |-> idx \in OkBefore(result)]
    /\ UNCHANGED <<manifest, files, loader, flat, built>>

ConstructFlat(num_task, train) ==
    /\ Fresh
    /\ LET made == nar_Custom_Dataset_init(manifest, files, num_task, train)
       IN  /\ flat' = IF made.ok THEN [state |-> "ok", self |-> made.val]
                      ELSE [state |-> "failed", err |-> made.err,
                            num_task |-> num_task, train |-> train]
           /\ built' = flat'
    /\ UNCHANGED <<manifest, files, loader, result>>

FlatLen ==
    /\ flat.state = "ok"
    /\ result' = [op |-> "FlatLen", out |-> nar_Custom_Dataset_len(flat.self)]
    /\ UNCHANGED <<manifest, files, loader, flat, built>>

FlatGet(idx) ==
    /\ flat.state = "ok"
    /\ result' = [op |-> "FlatGet", idx |-> idx,
                  out |-> nar_Custom_Dataset_getitem(flat.self, idx)]
    /\ UNCHANGED <<manifest, files, loader, flat, built>>

FsOps == Cardinality({f \in DOMAIN files : ~files[f].exists \/ files[f].ver > 1})

DeleteFile(f) ==
    /\ files[f].exists
    /\ files[f].ver > 1 \/ FsOps < MaxFsOps
    /\ files' = [files EXCEPT ![f].exists = FALSE]
    /\ result' = [op |-> "none", okBefore |-> OkBefore(result)]
    /\ UNCHANGED <<manifest, loader, flat, built>>

\* the file is written again, with another picture in it
OverwriteFile(f) ==
    /\ files[f].exists
    /\ files[f].ver = 1
    /\ FsOps < MaxFsOps
    /\ files' = [files EXCEPT ![f].ver = 2]
    /\ result' = [op |-> "none", okBefore |-> OkBefore(result)]
    /\ UNCHANGED <<manifest, loader, flat, built>>

\* the calls of the two classes
Calls ==
    \/ \E size1 \in SliceStarts, size2 \in SliceEnds : ConstructLoader(size1, size2)
    \/ LoaderLen
    \/ loader.state = "ok" /\ \E idx \in LoaderIndexes(loader.self) : LoaderGet(idx)
    \/ \E num_task \in TaskCounts, train \in BOOLEAN : ConstructFlat(num_task, train)
    \/ FlatLen
    \/ flat.state = "ok" /\ \E idx \in FlatIndexes(flat.self) : FlatGet(idx)

\* the changes of the image directory between them
FsChanges ==
    \/ \E f \in DOMAIN files : DeleteFile(f)
    \/ \E f \in DOMAIN files : OverwriteFile(f)

Next == Calls \/ FsChanges

Spec == Init /\ [][Next]_vars

\* The runs in which the image directory stays as it belongs to the manifest.
SpecPristine == Init /\ [][Calls]_vars

(***************************************************************************)
(* Properties.                                                             *)
(***************************************************************************)
\* The picture a tensor shows and its number of channels, whatever the
\* number of times the file it was read from had been written.
Shows(tensor, sym, channels) ==
    tensor.channels = channels /\ tensor.pixels.renders = sym

FlatOk == flat.state = "ok"
LoaderOk == loader.state = "ok"
GotFromLoader == result.op = "LoaderGet" /\ result.out.ok
GotFromFlat == result.op = "FlatGet" /\ result.out.ok

\* the example count and the option count construction takes from problem 0
NumExamples == Len(manifest[1].examples)
NumOptions == Len(manifest[1].examples[1].options)

\* Row task*numExamples+example of a train-mode dataset, as the manifest
\* describes it.
TrainRowIsExample(self, task, example) ==
    LET row == task * NumExamples + example + 1
        ex == manifest[task + 1].examples[example + 1]
    IN  /\ row \in DOMAIN self.images
        /\ Shows(self.images[row], ex.input, 1)
        /\ Len(self.options[row]) = NumOptions
        /\ \A j \in 1..NumOptions : Shows(self.options[row][j], ex.options[j], 1)
        /\ ex.solution + 1 \in DOMAIN ex.options
        /\ Shows(self.solution[row], ex.options[ex.solution + 1], 1)

C2_SameStructure ==
    GotFromLoader =>
        LET sym == result.out.val.symbolic
            hyd == result.out.val.hydrated
        IN  /\ Len(hyd.examples) = Len(sym.examples)
            /\ \A e \in DOMAIN sym.examples :
                  /\ Len(hyd.examples[e].options) = Len(sym.examples[e].options)
                  /\ hyd.examples[e].solution = sym.examples[e].solution
            /\ Len(hyd.query_options) = Len(sym.query_options)
            /\ hyd.solution = sym.solution
            /\ hyd.program = sym.program

\* Get returned a problem of three examples, one of them with three options
C2_Witness ==
    /\ GotFromLoader /\ result.idx >= 0
    /\ Len(result.out.val.hydrated.examples) = 3
    /\ Len(result.out.val.hydrated.examples[2].options) = 3

\* C3: the length of a constructed flattened dataset is taskCount*numExamples
\* in train mode and taskCount in evaluation mode, numExamples being the
\* example count of problem 0, and Length() returns it.
C3_FlatLength ==
    FlatOk =>
        LET expected == IF flat.self.train THEN flat.self.num_task * NumExamples
                        ELSE flat.self.num_task
        IN  /\ Len(flat.self.images) = expected
            /\ Len(flat.self.options) = expected
            /\ Len(flat.self.solution) = expected
            /\ result.op = "FlatLen" => result.out = expected

\* Length() of a train-mode dataset of two tasks with two examples each
C3_Witness ==
    /\ FlatOk /\ flat.self.train /\ flat.self.num_task = 2
    /\ result.op = "FlatLen" /\ result.out = 4

\* Length() of an evaluation-mode dataset of two tasks
C3_WitnessEval ==
    /\ FlatOk /\ ~flat.self.train /\ flat.self.num_task = 2
    /\ result.op = "FlatLen" /\ result.out = 2

\* the length of the component the last Get was called on
LengthAtGet ==
    IF result.op = "LoaderGet" THEN AnalogicalReasoningDataset_len(loader.self)
    ELSE nar_Custom_Dataset_len(flat.self)

IsGet == result.op \in {"LoaderGet", "FlatGet"}

OutOfRangeError == ~result.out.ok /\ result.out.err = "IndexError"

\* C4 as claimed, in its last clause: for both components Get(index) fails
\* for every index outside [0, Length()) and never returns a record.
C4_Claimed ==
    IsGet /\ (result.idx < 0 \/ result.idx >= LengthAtGet) => ~result.out.ok

\* C4 as amended: for both components Get(index) fails with an out-of-range
\* error for every index >= Length() and every index < -Length(); an index in
\* [-Length(), 0) counts from the end: the flattened dataset returns row
\* Length()+index, and the problem loader looks up problem Length()+index and
\* reads the files named after the negative index, so that it raises an image
\* error or returns that problem, never an out-of-range error.
C4_OutOfRange ==
    IsGet =>
        /\ (result.idx >= LengthAtGet \/ result.idx < -LengthAtGet) => OutOfRangeError
        /\ (-LengthAtGet <= result.idx /\ result.idx < 0) =>
              IF result.op = "FlatGet"
              THEN /\ result.out.ok
                   /\ result.out.val.images =
                          flat.self.images[LengthAtGet + result.idx + 1]
                   /\ result.out.val.options =
                          flat.self.options[LengthAtGet + result.idx + 1]
                   /\ result.out.val.solution =
                          flat.self.solution[LengthAtGet + result.idx + 1]
              ELSE IF result.out.ok
                   THEN result.out.val.symbolic =
                            SymbolicForm(loader.self.problems[LengthAtGet + result.idx + 1])
                   ELSE result.out.err = "FileNotFoundError"

\* Get(Length()) of a flattened dataset of four rows failed
C4_Witness ==
    /\ result.op = "FlatGet" /\ result.idx = 4 /\ LengthAtGet = 4
    /\ OutOfRangeError

\* Get(-Length() - 1) of a problem loader of two problems failed
C4_WitnessLoader ==
    /\ result.op = "LoaderGet" /\ result.idx = -3 /\ LengthAtGet = 2
    /\ OutOfRangeError

\* C5 as claimed: every hydrated example the problem loader returns has
\* 0 <= solution < len(options), and every hydrated problem has
\* 0 <= solution < len(query_options).
C5_SolutionInRange ==
    GotFromLoader =>
        LET hyd == result.out.val.hydrated
        IN  /\ \A e \in DOMAIN hyd.examples :
                  /\ 0 <= hyd.examples[e].solution
                  /\ hyd.examples[e].solution < Len(hyd.examples[e].options)
            /\ 0 <= hyd.solution
            /\ hyd.solution < Len(hyd.query_options)

Tasks(num_task) == 1..Min(Max(num_task, 0), Len(manifest))

\* the option count of each example of a problem, in example order
OptionCounts(problem) ==
    [e \in DOMAIN problem.examples |-> Len(problem.examples[e].options)]

\* C7 as claimed, for train mode: a flattened dataset is constructed only
\* when every problem in [0, taskCount) has the example count and the option
\* counts of problem 0.
C7_Claimed ==
    FlatOk /\ flat.self.train =>
        \A t \in Tasks(flat.self.num_task) :
            OptionCounts(manifest[t]) = OptionCounts(manifest[1])

\* A count construction needs is smaller than problem 0's: in train mode a
\* problem has fewer examples than problem 0, or one of its first numExamples
\* examples has fewer options than example 0 of problem 0; in evaluation mode
\* a problem has fewer query options than problem 0.
FewerThanFirst(num_task, train) ==
    \E t \in Tasks(num_task) :
        IF train
        THEN \/ Len(manifest[t].examples) < NumExamples
             \/ \E e \in 1..Min(NumExamples, Len(manifest[t].examples)) :
                   Len(manifest[t].examples[e].options) < NumOptions
        ELSE Len(manifest[t].query_options) < Len(manifest[1].query_options)

\* every solution index construction uses is an index of its option list
SolutionsInRange(num_task, train) ==
    \A t \in Tasks(num_task) :
        IF train
        THEN \A e \in 1..Min(NumExamples, Len(manifest[t].examples)) :
                manifest[t].examples[e].solution < Len(manifest[t].examples[e].options)
        ELSE manifest[t].solution < Len(manifest[t].query_options)

\* C7 as amended: construction fails with an error (an index error) when a
\* count it needs is smaller than problem 0's; examples and options beyond
\* problem 0's counts are ignored and do not fail it: with every image file
\* in place, 1 <= taskCount <= manifest length and the solution indexes in
\* range, construction completes unless a count is smaller.
C7_FewerFails ==
    /\ FlatOk => ~FewerThanFirst(flat.self.num_task, flat.self.train)
    /\ built.state = "failed" /\ (\A f \in DOMAIN files : files[f].exists) =>
          /\ FewerThanFirst(built.num_task, built.train) => built.err = "IndexError"
          /\ \/ FewerThanFirst(built.num_task, built.train)
             \/ ~SolutionsInRange(built.num_task, built.train)
             \/ built.num_task < 1
             \/ built.num_task > Len(manifest)

\* construction in train mode failed on a second problem that has problem
\* 0's example count and fewer options in one example
C7_Witness ==
    /\ built.state = "failed" /\ built.train /\ built.num_task = 2
    /\ built.err = "IndexError"
    /\ Len(manifest) = 2
    /\ Len(manifest[2].examples) = NumExamples
    /\ FewerThanFirst(2, TRUE)
    /\ \A f \in DOMAIN files : files[f].exists

\* The files the naming convention gives the problem found at an index.
ExpectedFiles(idx, problem) ==
    {NameOf(Sym(idx, s.part, s.example, s.option)) : s \in SymsOfProblem(problem)}

Exists(f) == f \in DOMAIN files /\ files[f].exists

\* C8: whatever Gets and deletions came before, Get(index) of the problem
\* loader for a valid index succeeds exactly when every image file the naming
\* convention expects for that index exists at the call; otherwise it fails
\* with an image error; the stored problems are those of the construction.
C8_FreshReads ==
    /\ LoaderOk =>
          /\ Len(loader.self.problems) <= Len(manifest)
          /\ \A k \in DOMAIN loader.self.problems :
                loader.self.problems[k] = manifest[loader.size1 + k]
    /\ result.op = "LoaderGet" /\ 0 <= result.idx /\ result.idx < LengthAtGet =>
          LET expected == ExpectedFiles(result.idx, loader.self.problems[result.idx + 1])
          IN  /\ result.out.ok <=> \A f \in expected : Exists(f)
              /\ ~result.out.ok => result.out.err = "FileNotFoundError"
              /\ result.out.ok =>
                    /\ result.out.val.hydrated.query.pixels.ver =
                          files[QueryName(result.idx)].ver
                    /\ result.out.val.hydrated.query.channels = 3

\* Get(index) fails on a deleted file after it had succeeded
C8_Witness ==
    /\ result.op = "LoaderGet" /\ 0 <= result.idx /\ result.idx < LengthAtGet
    /\ result.again
    /\ ~result.out.ok /\ result.out.err = "FileNotFoundError"

\* C9: a constructed flattened dataset keeps the tensors of its construction,
\* and Get returns the row of those tensors, whatever image files were
\* overwritten or deleted since.
C9_Materialized ==
    FlatOk =>
        /\ flat = built
        /\ result.op = "FlatGet" /\ PyInRange(Len(built.self.images), result.idx) =>
              LET row == PyPos(Len(built.self.images), result.idx)
              IN  /\ result.out.ok
                  /\ result.out.val.images = built.self.images[row]
                  /\ result.out.val.options = built.self.options[row]
                  /\ result.out.val.solution = built.self.solution[row]

\* the file behind the returned image is gone, or holds another picture now
C9_Witness ==
    /\ GotFromFlat
    /\ LET f == NameOf(result.out.val.images.pixels.renders)
       IN  \/ ~files[f].exists
           \/ files[f].ver # result.out.val.images.pixels.ver

\* C10 as claimed: the images of the hydrated form are those of the manifest
\* problem the symbolic form returned with it describes.
C10_SameProblem ==
    GotFromLoader =>
        LET sym == result.out.val.symbolic
            hyd == result.out.val.hydrated
        IN  /\ hyd.query.pixels.renders = sym.query
            /\ \A o \in DOMAIN sym.query_options :
                  hyd.query_options[o].pixels.renders = sym.query_options[o]
            /\ \A e \in DOMAIN sym.examples :
                  /\ hyd.examples[e].input.pixels.renders = sym.examples[e].input
                  /\ \A o \in DOMAIN sym.examples[e].options :
                        hyd.examples[e].options[o].pixels.renders =
                            sym.examples[e].options[o]

====
